---- MODULE Spec2Model ----
(***************************************************************************)
(* Model of app.py, the task manager: the global list `tareas`, the        *)
(* counter `ultimo_id`, the file tareas.json, and one action per route     *)
(* handler (each including the store function it calls and the save that   *)
(* follows).  A process restart re-runs create_app, i.e. cargar_tareas.    *)
(***************************************************************************)
EXTENDS Integers, Sequences, FiniteSets, TLC

\* Bounds of the model.
MaxId == 2         \* no task is added once ultimo_id has reached MaxId

\* ---------------------------------------------------------------------
\* Input universes
\* ---------------------------------------------------------------------

\* List names, in ascending code-point order (the order of Python's sorted()).
Orden == <<" ", "None", "casa", "general">>

\* The list names the requests address.
Nombres == {"casa", "general"}

\* Values of the ?lista= query argument of /agregar ("" is `?lista=`).
ListasArg == Nombres \cup {""}

\* Raw form values, before .strip().
TextosForm == {" ", " leche "}
MotivosForm == {"", " luego "}
TemasForm == {" ", " metas "}
NombresForm == {" ", "general", " casa "}

\* Task ids a request can name (one more than can exist: an absent id).
Ids == 1..(MaxId + 1)

\* Outcomes of open()/json.dump() in guardar_tareas, and the one in which
\* no OSError is raised.
ResultadosEscritura == {"ok", "open_falla", "write_falla"}
Exitos == {"ok"}

VARIABLES
    tareas,      \* the global list of task dicts, in storage order
    ultimo_id,   \* the global id counter
    archivo,     \* tareas.json: [estado, datos]
    usados,      \* every id agregar_tarea has returned so far
    ultima,      \* the last request handled: [op, id, lista, valor, ret]
    hilos        \* the requests in flight when two are handled in parallel

vars == <<tareas, ultimo_id, archivo, usados, ultima, hilos>>

\* ---------------------------------------------------------------------
\* Pure helpers
\* ---------------------------------------------------------------------

\* str.strip() on the raw form values above.
Strip(s) ==
    CASE s = " " -> ""
      [] s = " leche " -> "leche"
      [] s = " luego " -> "luego"
      [] s = " metas " -> "metas"
      [] s = " casa " -> "casa"
      [] OTHER -> s

\* Position of a name in code-point order.
Pos(n) == CHOOSE i \in 1..Len(Orden) : Orden[i] = n

\* a < b for Python strings.
Menor(a, b) == Pos(a) < Pos(b)

\* t.get("lista", "general") or "general"
ListaDe(t) == IF t.lista = "" THEN "general" ELSE t.lista

\* max(..., default=0)
MaxDe(S) == IF S = {} THEN 0 ELSE CHOOSE m \in S : \A x \in S : x <= m

\* sorted(nombres)
RECURSIVE Sorted(_)
Sorted(S) ==
    IF S = {} THEN <<>>
    ELSE LET m == CHOOSE x \in S : \A y \in S : x = y \/ Menor(x, y)
         IN  <<m>> \o Sorted(S \ {m})

\* ---------------------------------------------------------------------
\* JSON file: json.dump / json.load and the coercions of cargar_tareas
\* ---------------------------------------------------------------------

\* A JSON value is tagged with its JSON type.
JInt(n) == [tipo |-> "int", int |-> n, str |-> "", bool |-> FALSE]
JStr(s) == [tipo |-> "str", int |-> 0, str |-> s, bool |-> FALSE]
JBool(b) == [tipo |-> "bool", int |-> 0, str |-> "", bool |-> b]
JNull == [tipo |-> "null", int |-> 0, str |-> "", bool |-> FALSE]

\* The decimal strings int() accepts, among the strings of the model.
EsNumeral(s) == \E n \in 0..9 : ToString(n) = s
EnteroDe(s) == CHOOSE n \in 0..9 : ToString(n) = s

\* json.dump of one task dict: a JSON object, key -> JSON value.
JsonTarea(t) ==
    [id |-> JInt(t.id), texto |-> JStr(t.texto), completada |-> JBool(t.completada),
     motivo |-> JStr(t.motivo), inhabilitada |-> JBool(t.inhabilitada),
     lista |-> JStr(t.lista), tema |-> JStr(t.tema)]

\* json.dump(tareas, f): a JSON array of objects.
JsonDump(ts) == [i \in 1..Len(ts) |-> JsonTarea(ts[i])]

\* o.get(k, d)
Get(o, k, d) == IF k \in DOMAIN o THEN o[k] ELSE d

\* The exception int(v) raises, "" when it raises none.
ErrorDeInt(v) ==
    CASE v.tipo = "null" -> "TypeError"
      [] v.tipo = "str" /\ ~EsNumeral(v.str) -> "ValueError"
      [] OTHER -> ""

\* int(v), str(v), bool(v) on JSON values (int(v) where it raises nothing).
PyInt(v) ==
    CASE v.tipo = "int" -> v.int
      [] v.tipo = "bool" -> IF v.bool THEN 1 ELSE 0
      [] v.tipo = "str" -> EnteroDe(v.str)

PyStr(v) ==
    CASE v.tipo = "str" -> v.str
      [] v.tipo = "int" -> ToString(v.int)
      [] v.tipo = "bool" -> IF v.bool THEN "True" ELSE "False"
      [] v.tipo = "null" -> "None"

PyBool(v) ==
    CASE v.tipo = "bool" -> v.bool
      [] v.tipo = "int" -> v.int # 0
      [] v.tipo = "str" -> v.str # ""
      [] v.tipo = "null" -> FALSE

\* Mutant: the `inhabilitada` key is not read back.
TareaDeJsonSinInhabilitada(o) ==
    [id |-> PyInt(Get(o, "id", JInt(0))),
     texto |-> PyStr(Get(o, "texto", JStr(""))),
     completada |-> PyBool(Get(o, "completada", JBool(FALSE))),
     motivo |-> PyStr(Get(o, "motivo", JStr(""))),
     inhabilitada |-> FALSE,
     lista |-> LET s == PyStr(Get(o, "lista", JStr("general")))
               IN  IF s = "" THEN "general" ELSE s,
     tema |-> PyStr(Get(o, "tema", JStr("")))]

\* The dict comprehension of cargar_tareas for one JSON object.
TareaDeJson(o) ==
    [id |-> PyInt(Get(o, "id", JInt(0))),
     texto |-> PyStr(Get(o, "texto", JStr(""))),
     completada |-> PyBool(Get(o, "completada", JBool(FALSE))),
     motivo |-> PyStr(Get(o, "motivo", JStr(""))),
     inhabilitada |-> PyBool(Get(o, "inhabilitada", JBool(FALSE))),
     lista |-> LET s == PyStr(Get(o, "lista", JStr("general")))
               IN  IF s = "" THEN "general" ELSE s,
     tema |-> PyStr(Get(o, "tema", JStr("")))]

\* tareas.json: absent; not JSON; a JSON array (estado "ok", its elements in
\* datos); and the other states a file can be found in at start-up: one that
\* open() refuses, bytes that are not UTF-8, a JSON number, a JSON object.
ArchivoAusente == [estado |-> "ausente", datos |-> <<>>]
ArchivoIlegible == [estado |-> "ilegible", datos |-> <<>>]
ArchivoCon(ts) == [estado |-> "ok", datos |-> JsonDump(ts)]
ArchivoSinAcceso == [estado |-> "sin_acceso", datos |-> <<>>]
ArchivoNoUtf8 == [estado |-> "no_utf8", datos |-> <<>>]
ArchivoNumero == [estado |-> "numero", datos |-> <<>>]
ArchivoObjeto == [estado |-> "objeto", datos |-> <<>>]
ArchivoLista(elems) == [estado |-> "ok", datos |-> elems]

\* An element of a JSON array is an object (key -> JSON value) or another
\* JSON value, which carries its tag.
EsObjeto(e) == "tipo" \notin DOMAIN e

\* The exception the dict comprehension raises on one element: t.get on a
\* value that is no dict, or int() on the id; str() and bool() raise nothing.
ErrorDeElemento(e) ==
    IF ~EsObjeto(e) THEN "AttributeError"
    ELSE ErrorDeInt(Get(e, "id", JInt(0)))

\* The exception cargar_tareas lets through, "" when it returns normally.
\* JSONDecodeError and OSError are caught; a UnicodeDecodeError, iterating a
\* number, the keys of an object and a bad element are not.
ErrorAlCargar(f) ==
    CASE f.estado \in {"ausente", "ilegible", "sin_acceso"} -> ""
      [] f.estado = "no_utf8" -> "UnicodeDecodeError"
      [] f.estado = "numero" -> "TypeError"
      [] f.estado = "objeto" -> "AttributeError"
      [] f.estado = "ok" ->
            LET malos == {i \in 1..Len(f.datos) : ErrorDeElemento(f.datos[i]) # ""}
            IN  IF malos = {} THEN ""
                ELSE ErrorDeElemento(
                        f.datos[CHOOSE i \in malos : \A j \in malos : i <= j])

\* cargar_tareas: the tasks it leaves in memory for a given file.
CargarTareas(f) ==
    IF f.estado # "ok" THEN <<>>
    ELSE [i \in 1..Len(f.datos) |-> TareaDeJson(f.datos[i])]

\* Mutant: ultimo_id after cargar_tareas is the number of tasks loaded.
UltimoIdDeLongitud(ts) == Len(ts)

\* ultimo_id after cargar_tareas.
UltimoIdDe(ts) == MaxDe({ts[i].id : i \in 1..Len(ts)})

\* guardar_tareas: the file after the call, for each outcome of the write.
\* open(..., "w") truncates, so a write that fails midway leaves a prefix of
\* the document, which json.load rejects.
GuardarTareas(ts, res) ==
    CASE res = "ok" -> ArchivoCon(ts)
      [] res = "open_falla" -> archivo
      [] res = "write_falla" -> ArchivoIlegible

\* ---------------------------------------------------------------------
\* Queries
\* ---------------------------------------------------------------------

\* [t for t in tareas if (t.get("lista", "general") or "general") == nombre]
TareasDeLista(ts, nombre) == SelectSeq(ts, LAMBDA t : ListaDe(t) = nombre)

NombresDe(ts) == {ListaDe(ts[i]) : i \in 1..Len(ts)}

\* Mutant: `nombres.add("general")` is left out.
ObtenerListasSinGeneral(ts) ==
    IF NombresDe(ts) = {} THEN <<"general">> ELSE Sorted(NombresDe(ts))

ObtenerListas(ts) ==
    IF NombresDe(ts) = {} THEN <<"general">>
    ELSE Sorted(NombresDe(ts) \cup {"general"})

\* next((t["tema"] for t in tareas_de_lista if t["tema"]), "")
PrimerTema(tl) ==
    LET con == SelectSeq(tl, LAMBDA t : t.tema # "")
    IN  IF con = <<>> THEN "" ELSE con[1].tema

ObtenerTemaLista(ts, nombre) == PrimerTema(TareasDeLista(ts, nombre))

\* Mutant: `completadas` is counted among the active tasks only.
ConstruirResumenListasSoloActivas(ts) ==
    LET listas == ObtenerListas(ts)
    IN  [k \in 1..Len(listas) |->
            LET tl == TareasDeLista(ts, listas[k])
            IN  [nombre |-> listas[k],
                 total |-> Len(tl),
                 activas |-> Len(SelectSeq(tl, LAMBDA t : ~t.inhabilitada)),
                 completadas |->
                     Len(SelectSeq(tl, LAMBDA t : t.completada /\ ~t.inhabilitada)),
                 tema |-> PrimerTema(tl)]]

ConstruirResumenListas(ts) ==
    LET listas == ObtenerListas(ts)
    IN  [k \in 1..Len(listas) |->
            LET tl == TareasDeLista(ts, listas[k])
            IN  [nombre |-> listas[k],
                 total |-> Len(tl),
                 activas |-> Len(SelectSeq(tl, LAMBDA t : ~t.inhabilitada)),
                 completadas |-> Len(SelectSeq(tl, LAMBDA t : t.completada)),
                 tema |-> PrimerTema(tl)]]

\* ---------------------------------------------------------------------
\* Store functions: the new list, the return value, whether it saves
\* ---------------------------------------------------------------------

\* Index of the first task with the id (the for loop), 0 when there is none.
Buscar(ts, id) ==
    IF \E i \in 1..Len(ts) : ts[i].id = id
    THEN CHOOSE i \in 1..Len(ts) :
            ts[i].id = id /\ \A j \in 1..(i - 1) : ts[j].id # id
    ELSE 0

NuevaTarea(id, texto, lista) ==
    [id |-> id, texto |-> texto, completada |-> FALSE, motivo |-> "",
     inhabilitada |-> FALSE, lista |-> IF lista = "" THEN "general" ELSE lista,
     tema |-> ""]

\* Mutant: the counter is not advanced (`ultimo_id += 1` left out).
SiguienteIdSinIncremento(u) == u

SiguienteId(u) == u + 1

AgregarTarea(ts, u, texto, lista) ==
    Append(ts, NuevaTarea(SiguienteId(u), texto, lista))

\* Mutant: completing does not clear the reason.
CompletarTareaSinLimpiar(ts, id) ==
    LET i == Buscar(ts, id)
    IN  IF i = 0 \/ ts[i].inhabilitada
        THEN [ts |-> ts, ret |-> FALSE]
        ELSE [ts |-> [ts EXCEPT ![i].completada = TRUE], ret |-> TRUE]

\* Mutant: the `inhabilitada` check of completar_tarea is left out.
CompletarTareaSinControl(ts, id) ==
    LET i == Buscar(ts, id)
    IN  IF i = 0
        THEN [ts |-> ts, ret |-> FALSE]
        ELSE [ts |-> [ts EXCEPT ![i].completada = TRUE, ![i].motivo = ""],
              ret |-> TRUE]

CompletarTarea(ts, id) ==
    LET i == Buscar(ts, id)
    IN  IF i = 0 \/ ts[i].inhabilitada
        THEN [ts |-> ts, ret |-> FALSE]
        ELSE [ts |-> [ts EXCEPT ![i].completada = TRUE, ![i].motivo = ""],
              ret |-> TRUE]

\* Mutant: the `inhabilitada` check is left out.
MarcarIncompletaSinControl(ts, id, motivo) ==
    LET i == Buscar(ts, id)
    IN  IF i = 0
        THEN [ts |-> ts, ret |-> FALSE]
        ELSE [ts |-> [ts EXCEPT ![i].completada = FALSE, ![i].motivo = motivo],
              ret |-> TRUE]

\* Mutant: marcar_incompleta stores the motivo and leaves `completada`.
MarcarIncompletaSinReabrir(ts, id, motivo) ==
    LET i == Buscar(ts, id)
    IN  IF i = 0 \/ ts[i].inhabilitada
        THEN [ts |-> ts, ret |-> FALSE]
        ELSE [ts |-> [ts EXCEPT ![i].motivo = motivo], ret |-> TRUE]

MarcarIncompleta(ts, id, motivo) ==
    LET i == Buscar(ts, id)
    IN  IF i = 0 \/ ts[i].inhabilitada
        THEN [ts |-> ts, ret |-> FALSE]
        ELSE [ts |-> [ts EXCEPT ![i].completada = FALSE, ![i].motivo = motivo],
              ret |-> TRUE]

BorrarTarea(ts, id) ==
    LET i == Buscar(ts, id)
    IN  IF i = 0
        THEN [ts |-> ts, ret |-> FALSE]
        ELSE [ts |-> [ts EXCEPT ![i].inhabilitada = TRUE], ret |-> TRUE]

\* Mutant: the rename loop skips disabled tasks.
RenombradasSoloActivas(ts, lista_nombre, nuevo_nombre) ==
    [i \in 1..Len(ts) |->
        IF ListaDe(ts[i]) = lista_nombre /\ ~ts[i].inhabilitada
        THEN [ts[i] EXCEPT !.lista = nuevo_nombre] ELSE ts[i]]

\* Mutant: an empty theme is ignored (`if nuevo_tema:`) instead of clearing.
ConTemaSiNoVacio(ts, lista_nombre, nuevo_tema) ==
    [i \in 1..Len(ts) |->
        IF ListaDe(ts[i]) = lista_nombre /\ nuevo_tema # ""
        THEN [ts[i] EXCEPT !.tema = nuevo_tema] ELSE ts[i]]

\* The loops of renombrar_lista, eliminar_lista and actualizar_tema_lista.
Renombradas(ts, lista_nombre, nuevo_nombre) ==
    [i \in 1..Len(ts) |->
        IF ListaDe(ts[i]) = lista_nombre
        THEN [ts[i] EXCEPT !.lista = nuevo_nombre] ELSE ts[i]]

\* Mutant: the disabled tasks of the list are kept.
SinListaSoloActivas(ts, lista_nombre) ==
    SelectSeq(ts, LAMBDA t : ListaDe(t) # lista_nombre \/ t.inhabilitada)

SinLista(ts, lista_nombre) ==
    SelectSeq(ts, LAMBDA t : ListaDe(t) # lista_nombre)

ConTema(ts, lista_nombre, nuevo_tema) ==
    [i \in 1..Len(ts) |->
        IF ListaDe(ts[i]) = lista_nombre
        THEN [ts[i] EXCEPT !.tema = nuevo_tema] ELSE ts[i]]

\* ---------------------------------------------------------------------
\* Actions
\* ---------------------------------------------------------------------

Peticion(op, id, lista, valor, ret) ==
    [op |-> op, id |-> id, lista |-> lista, valor |-> valor, ret |-> ret]

\* guardar_tareas() at the end of a handler, with the outcome of the write.
Escribe(ts, res) == archivo' = GuardarTareas(ts, res)

NoEscribe == UNCHANGED archivo

\* A request in flight: its handler, its position in it and its locals.
Ocioso ==
    [pc |-> "ocioso", op |-> "", lista |-> "", leido |-> 0, id |-> 0,
     nueva |-> <<>>, durante |-> FALSE]

Hilos == {1, 2}

Ociosos == [h \in Hilos |-> Ocioso]

Init ==
    /\ tareas = <<>>
    /\ ultimo_id = 0
    /\ archivo = ArchivoAusente
    /\ usados = {}
    /\ ultima = Peticion("inicio", 0, "", "", TRUE)
    /\ hilos = Ociosos

\* The process is up: it has been started and create_app() did not raise.
Viva == ultima.op # "apagado" /\ ~(ultima.op = "cargar" /\ ~ultima.ret)

\* One worker handles the request, with no other request in flight.
Atiende == Viva /\ UNCHANGED hilos

\* Process restart: create_app() runs cargar_tareas() on fresh globals. When
\* cargar_tareas raises, the globals keep their initial values and the
\* process does not come up.
Reinicio ==
    /\ IF ErrorAlCargar(archivo) = ""
       THEN /\ tareas' = CargarTareas(archivo)
            /\ ultimo_id' = UltimoIdDe(CargarTareas(archivo))
            /\ ultima' = Peticion("cargar", 0, "", "", TRUE)
       ELSE /\ tareas' = <<>>
            /\ ultimo_id' = 0
            /\ ultima' = Peticion("cargar", 0, "", ErrorAlCargar(archivo), FALSE)
    /\ UNCHANGED <<archivo, usados, hilos>>

\* Mutant: the `if texto:` test is left out.
RutaAgregarTareaSinValidar(textoForm, lista, res) ==
    LET texto == Strip(textoForm)
    IN  /\ Atiende
        /\ ultimo_id < MaxId
        /\ tareas' = AgregarTarea(tareas, ultimo_id, texto, lista)
        /\ ultimo_id' = SiguienteId(ultimo_id)
        /\ usados' = usados \cup {SiguienteId(ultimo_id)}
        /\ Escribe(tareas', res)
        /\ ultima' = Peticion("agregar", SiguienteId(ultimo_id), lista, texto, TRUE)

\* POST /agregar?lista=NAME (form: texto)
RutaAgregarTarea(textoForm, lista, res) ==
    LET texto == Strip(textoForm)
    IN  /\ Atiende
        /\ IF texto # ""
           THEN
             /\ ultimo_id < MaxId
             /\ tareas' = AgregarTarea(tareas, ultimo_id, texto, lista)
             /\ ultimo_id' = SiguienteId(ultimo_id)
             /\ usados' = usados \cup {SiguienteId(ultimo_id)}
             /\ Escribe(tareas', res)
             /\ ultima' = Peticion("agregar", SiguienteId(ultimo_id), lista, texto, TRUE)
           ELSE
             /\ ultima' = Peticion("agregar", 0, lista, texto, FALSE)
             /\ UNCHANGED <<tareas, ultimo_id, usados>>
             /\ NoEscribe

\* POST /completar/<id>
RutaCompletarTarea(id, res) ==
    LET r == CompletarTarea(tareas, id)
    IN  /\ Atiende
        /\ tareas' = r.ts
        /\ IF r.ret THEN Escribe(tareas', res) ELSE NoEscribe
        /\ ultima' = Peticion("completar", id, "", "", r.ret)
        /\ UNCHANGED <<ultimo_id, usados>>

\* POST /incompleta/<id> (form: motivo)
RutaMarcarIncompleta(id, motivoForm, res) ==
    LET motivo == Strip(motivoForm)
        r == MarcarIncompleta(tareas, id, motivo)
    IN  /\ Atiende
        /\ tareas' = r.ts
        /\ IF r.ret THEN Escribe(tareas', res) ELSE NoEscribe
        /\ ultima' = Peticion("incompleta", id, "", motivo, r.ret)
        /\ UNCHANGED <<ultimo_id, usados>>

\* Mutant: borrar_tarea does not call guardar_tareas.
RutaBorrarTareaSinGuardar(id, res) ==
    LET r == BorrarTarea(tareas, id)
    IN  /\ Atiende
        /\ tareas' = r.ts
        /\ NoEscribe
        /\ ultima' = Peticion("borrar", id, "", "", r.ret)
        /\ UNCHANGED <<ultimo_id, usados>>

\* POST /borrar/<id>
RutaBorrarTarea(id, res) ==
    LET r == BorrarTarea(tareas, id)
    IN  /\ Atiende
        /\ tareas' = r.ts
        /\ IF r.ret THEN Escribe(tareas', res) ELSE NoEscribe
        /\ ultima' = Peticion("borrar", id, "", "", r.ret)
        /\ UNCHANGED <<ultimo_id, usados>>

\* POST /listas/renombrar/<lista_nombre> (form: nuevo_nombre)
RenombrarLista(lista_nombre, nombreForm, res) ==
    LET nuevo_nombre == Strip(nombreForm)
    IN  /\ Atiende
        /\ IF nuevo_nombre = "" \/ nuevo_nombre = lista_nombre
           THEN /\ ultima' = Peticion("renombrar", 0, lista_nombre, nuevo_nombre, FALSE)
                /\ UNCHANGED <<tareas, ultimo_id, usados>>
                /\ NoEscribe
           ELSE /\ tareas' = Renombradas(tareas, lista_nombre, nuevo_nombre)
                /\ Escribe(tareas', res)
                /\ ultima' = Peticion("renombrar", 0, lista_nombre, nuevo_nombre, TRUE)
                /\ UNCHANGED <<ultimo_id, usados>>

\* Mutant: the guard on "general" is left out.
EliminarListaSinGuarda(lista_nombre, res) ==
    /\ Atiende
    /\ tareas' = SinLista(tareas, lista_nombre)
    /\ Escribe(tareas', res)
    /\ ultima' = Peticion("eliminar", 0, lista_nombre, "", TRUE)
    /\ UNCHANGED <<ultimo_id, usados>>

\* POST /listas/eliminar/<lista_nombre>
EliminarLista(lista_nombre, res) ==
    /\ Atiende
    /\ IF lista_nombre = "general"
       THEN /\ ultima' = Peticion("eliminar", 0, lista_nombre, "", FALSE)
            /\ UNCHANGED <<tareas, ultimo_id, usados>>
            /\ NoEscribe
       ELSE /\ tareas' = SinLista(tareas, lista_nombre)
            /\ Escribe(tareas', res)
            /\ ultima' = Peticion("eliminar", 0, lista_nombre, "", TRUE)
            /\ UNCHANGED <<ultimo_id, usados>>

\* POST /listas/tema/<lista_nombre> (form: tema)
ActualizarTemaLista(lista_nombre, temaForm, res) ==
    LET nuevo_tema == Strip(temaForm)
    IN  /\ Atiende
        /\ tareas' = ConTema(tareas, lista_nombre, nuevo_tema)
        /\ Escribe(tareas', res)
        /\ ultima' = Peticion("tema", 0, lista_nombre, nuevo_tema, TRUE)
        /\ UNCHANGED <<ultimo_id, usados>>

\* The requests, each handled to completion before the next one.
Peticiones ==
    \/ \E t \in TextosForm, l \in ListasArg, res \in Exitos :
          RutaAgregarTarea(t, l, res)
    \/ \E id \in Ids, res \in Exitos : RutaCompletarTarea(id, res)
    \/ \E id \in Ids, m \in MotivosForm, res \in Exitos :
          RutaMarcarIncompleta(id, m, res)
    \/ \E id \in Ids, res \in Exitos : RutaBorrarTarea(id, res)
    \/ \E l \in Nombres, n \in NombresForm, res \in Exitos :
          RenombrarLista(l, n, res)
    \/ \E l \in Nombres, res \in Exitos : EliminarLista(l, res)
    \/ \E l \in Nombres, t \in TemasForm, res \in Exitos :
          ActualizarTemaLista(l, t, res)

Next == Reinicio \/ Peticiones

\* Requests and restarts, every write succeeding.
Spec == Init /\ [][Next]_vars

\* One process run from the empty store: requests only, no restart.
SpecCorrida == Init /\ [][Peticiones]_vars

\* --- Start-up on any file, list names as the query string gives them ---

\* Contents tareas.json can be found with when the process starts: written
\* by another program or by hand.
ArchivoInicial(k) ==
    CASE k = 1 -> ArchivoAusente
      [] k = 2 -> ArchivoIlegible
      [] k = 3 -> ArchivoSinAcceso
      [] k = 4 -> ArchivoNoUtf8
      [] k = 5 -> ArchivoNumero
      [] k = 6 -> ArchivoObjeto
      [] k = 7 -> ArchivoLista(<<>>)
      [] k = 8 -> ArchivoLista(<<JInt(1)>>)
      [] k = 9 -> ArchivoLista(<<[id |-> JStr("abc"), texto |-> JStr("leche")]>>)
      [] k = 10 -> ArchivoLista(<<[id |-> JNull, texto |-> JStr("leche")]>>)
      [] k = 11 -> ArchivoLista(<<[id |-> JStr("1"), texto |-> JInt(5),
                                   completada |-> JStr("no")]>>)
      [] k = 12 -> ArchivoLista(<<[id |-> JInt(1), texto |-> JStr("leche")]>>)
      [] k = 13 -> ArchivoLista(<<[id |-> JInt(1), texto |-> JStr("leche"),
                                   lista |-> JStr("")]>>)
      [] k = 14 -> ArchivoLista(<<[id |-> JInt(1), texto |-> JStr("leche"),
                                   lista |-> JNull]>>)
      [] k = 15 -> ArchivoLista(<<JsonTarea(NuevaTarea(1, "leche", "casa")),
                                   JInt(1)>>)

NumArchivosIniciales == 15

\* The module has been imported, create_app() has not run yet.
InitArranque ==
    /\ tareas = <<>>
    /\ ultimo_id = 0
    /\ \E k \in 1..NumArchivosIniciales : archivo = ArchivoInicial(k)
    /\ usados = {}
    /\ ultima = Peticion("apagado", 0, "", "", TRUE)
    /\ hilos = Ociosos

\* /agregar?lista=%20: the query argument is passed on as it comes.
PeticionesArranque ==
    \/ Peticiones
    \/ \E t \in TextosForm, res \in Exitos : RutaAgregarTarea(t, " ", res)

NextArranque == Reinicio \/ PeticionesArranque

SpecArranque == InitArranque /\ [][NextArranque]_vars

\* ---------------------------------------------------------------------
\* Properties
\* ---------------------------------------------------------------------

Existe(ts, id) == Buscar(ts, id) # 0

TareaCon(ts, id) == ts[Buscar(ts, id)]

Inhabilitada(ts, id) == Existe(ts, id) /\ TareaCon(ts, id).inhabilitada

Motivos == {Strip(m) : m \in MotivosForm}

IdsDistintos(ts) ==
    \A i, j \in 1..Len(ts) : i # j => ts[i].id # ts[j].id

\* C1: in one process run from the empty store, every id agregar_tarea
\* returns is greater than every id it returned before, and no two tasks of
\* the collection ever share an id.
C1_IdsCrecientesYUnicos ==
    /\ [] IdsDistintos(tareas)
    /\ [][ultima'.op = "agregar" /\ ultima'.ret
            => \A u \in usados : ultima'.id > u]_vars

\* A second task has been added while the first is still stored.
C1_Witness ==
    /\ ultima.op = "agregar" /\ ultima.ret
    /\ Cardinality(usados) >= 2
    /\ Len(tareas) >= 2

\* C2: the id agregar_tarea returns was never returned before, whatever
\* adds, list deletions and restarts came in between.
C2_IdNuncaReutilizado ==
    [][ultima'.op = "agregar" /\ ultima'.ret => ultima'.id \notin usados]_vars

\* C3: on an existing task that is not disabled, completar_tarea then
\* marcar_incompleta(R) gives completada = FALSE and motivo = R, and
\* marcar_incompleta(R) then completar_tarea gives completada = TRUE and
\* motivo = "", all four calls returning True, whatever the task held before.
C3_EnCadaEstado ==
    \A id \in Ids, R \in Motivos :
        Existe(tareas, id) /\ ~Inhabilitada(tareas, id) =>
            LET a == CompletarTarea(tareas, id)
                b == MarcarIncompleta(a.ts, id, R)
                c == MarcarIncompleta(tareas, id, R)
                d == CompletarTarea(c.ts, id)
            IN  /\ a.ret /\ b.ret /\ c.ret /\ d.ret
                /\ TareaCon(b.ts, id).completada = FALSE
                /\ TareaCon(b.ts, id).motivo = R
                /\ TareaCon(d.ts, id).completada = TRUE
                /\ TareaCon(d.ts, id).motivo = ""

\* The same on two consecutive requests for one id.
C3_DosPeticiones ==
    /\ ( /\ ultima.op = "completar" /\ ultima.ret
         /\ ultima'.op = "incompleta" /\ ultima'.id = ultima.id )
       => /\ ultima'.ret
          /\ TareaCon(tareas', ultima'.id).completada = FALSE
          /\ TareaCon(tareas', ultima'.id).motivo = ultima'.valor
    /\ ( /\ ultima.op = "incompleta" /\ ultima.ret
         /\ ultima'.op = "completar" /\ ultima'.id = ultima.id )
       => /\ ultima'.ret
          /\ TareaCon(tareas', ultima'.id).completada = TRUE
          /\ TareaCon(tareas', ultima'.id).motivo = ""

C3_CompletarYReabrir == [] C3_EnCadaEstado /\ [][C3_DosPeticiones]_vars

\* A task has just been reopened with a reason: it is not completed and
\* carries the reason.
C3_Witness ==
    /\ ultima.op = "incompleta" /\ ultima.ret /\ ultima.valor = "luego"
    /\ TareaCon(tareas, ultima.id).motivo = "luego"
    /\ ~TareaCon(tareas, ultima.id).completada

\* C4 as stated: completar_tarea, marcar_incompleta and borrar_tarea on the
\* id of a disabled task all return False and leave the task unchanged.
C4_TodaMutacionFalla ==
    [][ /\ ultima'.op \in {"completar", "incompleta", "borrar"}
        /\ Inhabilitada(tareas, ultima'.id)
        => ~ultima'.ret /\ tareas' = tareas ]_vars

\* C4 amended: on the id of a disabled task completar_tarea and
\* marcar_incompleta return False and change neither the task nor the file;
\* borrar_tarea leaves every field of the task unchanged too, but returns True.
C4_MutacionSobreInhabilitada ==
    [][ /\ ( /\ ultima'.op \in {"completar", "incompleta"}
             /\ Inhabilitada(tareas, ultima'.id) )
           => ~ultima'.ret /\ tareas' = tareas /\ archivo' = archivo
        /\ ( /\ ultima'.op = "borrar"
             /\ Inhabilitada(tareas, ultima'.id) )
           => ultima'.ret /\ tareas' = tareas ]_vars

\* A reopening with a reason has just been refused on a disabled task.
C4_Witness ==
    /\ ultima.op = "incompleta" /\ ~ultima.ret /\ ultima.valor = "luego"
    /\ Inhabilitada(tareas, ultima.id)

\* C5: eliminar_lista("general") changes neither the collection, nor the id
\* counter, nor the file, whatever the "general" list holds.
C5_EliminarGeneralNoHaceNada ==
    [][ultima'.op = "eliminar" /\ ultima'.lista = "general"
        => UNCHANGED <<tareas, ultimo_id, archivo>>]_vars

\* "general" was asked to be deleted while holding an active and a disabled task.
C5_Witness ==
    /\ ultima.op = "eliminar" /\ ultima.lista = "general"
    /\ \E i, j \in 1..Len(tareas) :
          /\ tareas[i].lista = "general" /\ tareas[i].inhabilitada
          /\ tareas[j].lista = "general" /\ ~tareas[j].inhabilitada

\* The elements of a sequence.
Elementos(q) == {q[i] : i \in 1..Len(q)}

\* Indices of the tasks carrying a list name.
IndicesDe(ts, nombre) == {i \in 1..Len(ts) : ts[i].lista = nombre}

\* C6: obtener_listas() is ascending without duplicates, contains "general",
\* holds exactly the list names the tasks carry (disabled tasks included)
\* plus "general", and is ["general"] for the empty collection.
C6_ObtenerListas ==
    LET l == ObtenerListas(tareas)
    IN  /\ \A i, j \in 1..Len(l) : i < j => Menor(l[i], l[j])
        /\ "general" \in Elementos(l)
        /\ Elementos(l) = {tareas[i].lista : i \in 1..Len(tareas)} \cup {"general"}
        /\ tareas = <<>> => l = <<"general">>

\* The only task stored is a disabled one of a list other than "general".
C6_Witness ==
    /\ Len(tareas) >= 1
    /\ \A i \in 1..Len(tareas) :
          tareas[i].lista = "casa" /\ tareas[i].inhabilitada
    /\ ObtenerListas(tareas) = <<"casa", "general">>

\* C7: for every collection the requests can build, cargar_tareas on the
\* file a successful guardar_tareas wrote gives the same tasks in the same
\* order with the same seven fields, and ultimo_id is the largest id in it
\* (0 for the empty collection); a restart on that file does so.
C7_EnCadaEstado ==
    LET f == GuardarTareas(tareas, "ok")
    IN  /\ f.estado = "ok"
        /\ CargarTareas(f) = tareas
        /\ \A i \in 1..Len(tareas) : UltimoIdDe(CargarTareas(f)) >= tareas[i].id
        /\ tareas # <<>> =>
              \E i \in 1..Len(tareas) : UltimoIdDe(CargarTareas(f)) = tareas[i].id

C7_AlReiniciar ==
    ultima'.op = "cargar" /\ archivo = GuardarTareas(tareas, "ok")
        => /\ tareas' = tareas
           /\ \A i \in 1..Len(tareas) : ultimo_id' >= tareas[i].id
           /\ tareas # <<>> => \E i \in 1..Len(tareas) : ultimo_id' = tareas[i].id
           /\ tareas = <<>> => ultimo_id' = 0

C7_GuardarYCargar == [] C7_EnCadaEstado /\ [][C7_AlReiniciar]_vars

\* A restart has loaded two tasks, one completed, one disabled with a
\* reason and a theme, of different lists.
C7_Witness ==
    /\ ultima.op = "cargar"
    /\ archivo = GuardarTareas(tareas, "ok")
    /\ Len(tareas) = 2
    /\ tareas[1].completada
    /\ tareas[2].inhabilitada /\ tareas[2].motivo = "luego" /\ tareas[2].tema = "metas"
    /\ tareas[1].lista # tareas[2].lista
    /\ ultimo_id = 2

\* C8: after renombrar_lista(old, new) with new non-empty and new # old, no
\* task is left in old, every task that was in old is in new with its other
\* six fields unchanged, every other task (those already in new included) is
\* unchanged, and the storage order is the same.
C8_RenombrarLista ==
    [][ /\ ultima'.op = "renombrar"
        /\ ultima'.valor # "" /\ ultima'.valor # ultima'.lista
        => /\ TareasDeLista(tareas', ultima'.lista) = <<>>
           /\ Len(tareas') = Len(tareas)
           /\ \A i \in 1..Len(tareas) :
                 IF tareas[i].lista = ultima'.lista
                 THEN /\ tareas'[i] = [tareas[i] EXCEPT !.lista = ultima'.valor]
                      /\ \E k \in 1..Len(TareasDeLista(tareas', ultima'.valor)) :
                            TareasDeLista(tareas', ultima'.valor)[k] = tareas'[i]
                 ELSE tareas'[i] = tareas[i]
           /\ archivo' = GuardarTareas(tareas', "ok") ]_vars

\* A list has been renamed onto a list that already had a task: the new list
\* holds a disabled and an active task.
C8_Witness ==
    /\ ultima.op = "renombrar" /\ ultima.ret
    /\ ultima.valor # "" /\ ultima.valor # ultima.lista
    /\ Len(TareasDeLista(tareas, ultima.valor)) = 2
    /\ \E i, j \in 1..Len(tareas) : tareas[i].inhabilitada /\ ~tareas[j].inhabilitada

\* The theme construir_resumen_listas() reports for a name ("" when it has no entry).
TemaEnResumen(ts, nombre) ==
    LET r == ConstruirResumenListas(ts)
        ks == {k \in 1..Len(r) : r[k].nombre = nombre}
    IN  IF ks = {} THEN "" ELSE r[CHOOSE k \in ks : TRUE].tema

\* C9: after actualizar_tema_lista(name, T) on a list that holds a task,
\* every task of the list has tema = T and the summary reports T for the
\* list, also for T = ""; the tasks of the other lists, and the themes the
\* summary reports for them, are unchanged.
C9_ActualizarTemaLista ==
    [][ /\ ultima'.op = "tema"
        /\ TareasDeLista(tareas, ultima'.lista) # <<>>
        => /\ Len(tareas') = Len(tareas)
           /\ \A i \in 1..Len(tareas) :
                 IF tareas[i].lista = ultima'.lista
                 THEN tareas'[i] = [tareas[i] EXCEPT !.tema = ultima'.valor]
                 ELSE tareas'[i] = tareas[i]
           /\ TemaEnResumen(tareas', ultima'.lista) = ultima'.valor
           /\ Cardinality({k \in 1..Len(ConstruirResumenListas(tareas')) :
                  ConstruirResumenListas(tareas')[k].nombre = ultima'.lista}) = 1
           /\ \A n \in Nombres \ {ultima'.lista} :
                 TemaEnResumen(tareas', n) = TemaEnResumen(tareas, n) ]_vars

\* The theme of a list with a task has just been cleared while the other
\* list keeps its theme.
C9_Witness ==
    /\ ultima.op = "tema" /\ ultima.valor = ""
    /\ TareasDeLista(tareas, ultima.lista) # <<>>
    /\ \E n \in Nombres \ {ultima.lista} : TemaEnResumen(tareas, n) = "metas"

RECURSIVE SumaTotales(_)
SumaTotales(r) ==
    IF r = <<>> THEN 0 ELSE Head(r).total + SumaTotales(Tail(r))

\* C10: construir_resumen_listas() has one entry per name of
\* obtener_listas(), in that order; total counts the tasks carrying the name
\* (disabled included), activas those not disabled, completadas those
\* completed; so activas <= total, completadas <= total and the totals add
\* up to the size of the collection.
C10_ConstruirResumenListas ==
    LET r == ConstruirResumenListas(tareas)
        l == ObtenerListas(tareas)
    IN  /\ Len(r) = Len(l)
        /\ \A k \in 1..Len(r) :
              /\ r[k].nombre = l[k]
              /\ r[k].total = Cardinality(IndicesDe(tareas, l[k]))
              /\ r[k].activas =
                    Cardinality({i \in IndicesDe(tareas, l[k]) : ~tareas[i].inhabilitada})
              /\ r[k].completadas =
                    Cardinality({i \in IndicesDe(tareas, l[k]) : tareas[i].completada})
              /\ r[k].activas <= r[k].total
              /\ r[k].completadas <= r[k].total
        /\ SumaTotales(r) = Len(tareas)

\* A list holds two tasks, one of them disabled and completed.
C10_Witness ==
    \E k \in 1..Len(ConstruirResumenListas(tareas)) :
        LET e == ConstruirResumenListas(tareas)[k]
        IN  /\ e.total = 2 /\ e.activas = 1 /\ e.completadas = 1
            /\ \E i \in 1..Len(tareas) :
                  /\ tareas[i].lista = e.nombre
                  /\ tareas[i].inhabilitada /\ tareas[i].completada

\* --- Writes that can fail ---

\* Requests that add, change and remove tasks, guardar_tareas ending in any
\* of its outcomes.
PeticionesConFallos ==
    \/ \E t \in TextosForm, l \in ListasArg, res \in ResultadosEscritura :
          RutaAgregarTarea(t, l, res)
    \/ \E id \in Ids, res \in ResultadosEscritura : RutaCompletarTarea(id, res)
    \/ \E id \in Ids, res \in ResultadosEscritura : RutaBorrarTarea(id, res)
    \/ \E l \in Nombres, res \in ResultadosEscritura : EliminarLista(l, res)

NextConFallos == Reinicio \/ PeticionesConFallos

SpecFallos == Init /\ [][NextConFallos]_vars

\* --- Two requests in flight (threaded server, no lock) ---
\* agregar_tarea and eliminar_lista run statement by statement on the shared
\* globals; each call of guardar_tareas is taken as one step.

Otro(h) == CHOOSE g \in Hilos : g # h

Texto == Strip(" leche ")

\* `ultimo_id += 1`, first half: the global is read.
AgregarLee(h, lista) ==
    /\ Viva
    /\ hilos[h].pc = "ocioso"
    /\ ultimo_id < MaxId
    /\ hilos' = [hilos EXCEPT ![h] =
                    [Ocioso EXCEPT !.pc = "escribir", !.op = "agregar",
                                   !.lista = lista, !.leido = ultimo_id]]
    /\ UNCHANGED <<tareas, ultimo_id, archivo, usados, ultima>>

\* Mutant: the increment is applied to the current value of the global.
AgregarEscribeAtomico(h) ==
    /\ hilos[h].pc = "escribir"
    /\ ultimo_id' = ultimo_id + 1
    /\ hilos' = [hilos EXCEPT ![h].pc = "crear"]
    /\ UNCHANGED <<tareas, archivo, usados, ultima>>

\* `ultimo_id += 1`, second half: the value read plus one is stored.
AgregarEscribe(h) ==
    /\ hilos[h].pc = "escribir"
    /\ ultimo_id' = hilos[h].leido + 1
    /\ hilos' = [hilos EXCEPT ![h].pc = "crear"]
    /\ UNCHANGED <<tareas, archivo, usados, ultima>>

\* tarea = {"id": ultimo_id, ...}: the global is read again.
AgregarCrea(h) ==
    /\ hilos[h].pc = "crear"
    /\ hilos' = [hilos EXCEPT ![h].pc = "anexar", ![h].id = ultimo_id,
                    ![h].nueva = <<NuevaTarea(ultimo_id, Texto, hilos[h].lista)>>]
    /\ usados' = usados \cup {ultimo_id}
    /\ UNCHANGED <<tareas, ultimo_id, archivo, ultima>>

\* tareas.append(tarea), on the list the global names now. `durante`
\* records that the other request had built its new list and not yet
\* assigned it.
AgregarAnexa(h) ==
    /\ hilos[h].pc = "anexar"
    /\ tareas' = Append(tareas, hilos[h].nueva[1])
    /\ hilos' = [hilos EXCEPT ![h].pc = "guardar",
                    ![h].durante = (hilos[Otro(h)].pc = "asignar")]
    /\ UNCHANGED <<ultimo_id, archivo, usados, ultima>>

\* eliminar_lista: the guard on "general", then the list comprehension
\* builds the new list from the current one.
EliminarConstruye(h, lista_nombre) ==
    /\ Viva
    /\ hilos[h].pc = "ocioso"
    /\ hilos' = [hilos EXCEPT ![h] =
                    IF lista_nombre = "general"
                    THEN [Ocioso EXCEPT !.pc = "hecho", !.op = "eliminar",
                                        !.lista = lista_nombre]
                    ELSE [Ocioso EXCEPT !.pc = "asignar", !.op = "eliminar",
                                        !.lista = lista_nombre,
                                        !.nueva = SinLista(tareas, lista_nombre)]]
    /\ UNCHANGED <<tareas, ultimo_id, archivo, usados, ultima>>

\* eliminar_lista: `tareas = [...]` rebinds the global to the new list.
EliminarAsigna(h) ==
    /\ hilos[h].pc = "asignar"
    /\ tareas' = hilos[h].nueva
    /\ hilos' = [hilos EXCEPT ![h].pc = "guardar"]
    /\ UNCHANGED <<ultimo_id, archivo, usados, ultima>>

\* guardar_tareas() dumps the list the global names now.
Guarda(h) ==
    /\ hilos[h].pc = "guardar"
    /\ Escribe(tareas, "ok")
    /\ hilos' = [hilos EXCEPT ![h].pc = "hecho"]
    /\ UNCHANGED <<tareas, ultimo_id, usados, ultima>>

\* The requests in flight have returned; the workers are free again.
Responden ==
    /\ \A h \in Hilos : hilos[h].pc \in {"ocioso", "hecho"}
    /\ \E h \in Hilos : hilos[h].pc = "hecho"
    /\ hilos' = Ociosos
    /\ UNCHANGED <<tareas, ultimo_id, archivo, usados, ultima>>

NextConcurrente ==
    \/ \E h \in Hilos, l \in ListasArg : AgregarLee(h, l)
    \/ \E h \in Hilos : AgregarEscribe(h)
    \/ \E h \in Hilos : AgregarCrea(h)
    \/ \E h \in Hilos : AgregarAnexa(h)
    \/ \E h \in Hilos, l \in Nombres : EliminarConstruye(h, l)
    \/ \E h \in Hilos : EliminarAsigna(h)
    \/ \E h \in Hilos : Guarda(h)
    \/ Responden

SpecConcurrente == Init /\ [][NextConcurrente]_vars

\* ---------------------------------------------------------------------
\* Properties (continued)
\* ---------------------------------------------------------------------

\* The JSON type cargar_tareas expects under each key.
TipoDe(k) ==
    CASE k = "id" -> "int"
      [] k \in {"completada", "inhabilitada"} -> "bool"
      [] OTHER -> "str"

\* The file is a JSON array of objects whose fields have their types.
BienFormado(f) ==
    /\ f.estado = "ok"
    /\ \A i \in 1..Len(f.datos) :
          /\ EsObjeto(f.datos[i])
          /\ \A k \in DOMAIN f.datos[i] : f.datos[i][k].tipo = TipoDe(k)

\* C11: when tareas.json is missing, unreadable or malformed, cargar_tareas
\* returns normally and leaves an empty collection and ultimo_id = 0.
C11_CargarNuncaFalla ==
    ultima.op = "cargar" /\ ~BienFormado(archivo)
        => ultima.ret /\ tareas = <<>> /\ ultimo_id = 0

\* C12: a save leaves in the file either the complete collection saved
\* before or the complete collection being saved, whatever the outcome of
\* the write.
C12_GuardarEsAtomico ==
    [][archivo' = archivo \/ archivo' = ArchivoCon(tareas')]_vars

\* The request of this step is one the code rejects: an id that is not in
\* the collection, a text that is empty after strip(), a new list name that
\* is empty after strip() or equal to the old one.
Rechazada ==
    \/ /\ ultima'.op \in {"completar", "incompleta", "borrar"}
       /\ ~Existe(tareas, ultima'.id)
    \/ ultima'.op = "agregar" /\ ultima'.valor = ""
    \/ /\ ultima'.op = "renombrar"
       /\ (ultima'.valor = "" \/ ultima'.valor = ultima'.lista)

\* C13: a rejected request reports failure and leaves the collection, the
\* id counter and the file as they were.
C13_RechazoNoTocaNada ==
    [][Rechazada => ~ultima'.ret /\ UNCHANGED <<tareas, ultimo_id, archivo>>]_vars

\* A request for an id that is not there has been rejected on a store that
\* holds tasks.
C13_Witness ==
    /\ ultima.op \in {"completar", "incompleta", "borrar"}
    /\ ~ultima.ret
    /\ ~Existe(tareas, ultima.id)
    /\ tareas # <<>>
    /\ archivo = ArchivoCon(tareas)

\* A task that is inhabilitada before the step is, after it, still
\* inhabilitada with the same completada and motivo, or gone because
\* eliminar_lista removed its list.
SigueInhabilitada(id) ==
    Inhabilitada(tareas, id) =>
        IF Existe(tareas', id)
        THEN /\ TareaCon(tareas', id).inhabilitada
             /\ TareaCon(tareas', id).completada = TareaCon(tareas, id).completada
             /\ TareaCon(tareas', id).motivo = TareaCon(tareas, id).motivo
        ELSE ultima'.op = "eliminar"

\* The step is a restart that reads a file not holding the collection as it
\* is in memory: some guardar_tareas since the last load has failed.
RecargaAtrasada ==
    /\ ultima'.op = "cargar"
    /\ ~(ErrorAlCargar(archivo) = "" /\ CargarTareas(archivo) = tareas)

Conserva(ts, ts2) == \A i \in 1..Len(ts) : Existe(ts2, ts[i].id)

\* C15: eliminar_lista of a list other than "general" leaves exactly the
\* tasks of the other lists, unchanged and in their order, and leaves
\* ultimo_id alone; no other step makes a task disappear from `tareas`.
C15_EliminarLista ==
    [][/\ ultima'.op = "eliminar" /\ ultima'.lista # "general"
            => /\ ultima'.ret
               /\ tareas' = SelectSeq(tareas, LAMBDA t : t.lista # ultima'.lista)
               /\ ultimo_id' = ultimo_id
       /\ ~Conserva(tareas, tareas') => ultima'.op = "eliminar"]_vars

\* eliminar_lista has run, a task that was added is gone, and a task of
\* another list, disabled, remains.
C15_Witness ==
    /\ ultima.op = "eliminar"
    /\ ultima.ret
    /\ tareas # <<>>
    /\ \E id \in usados : ~Existe(tareas, id)
    /\ \E i \in 1..Len(tareas) : tareas[i].inhabilitada

\* The file holds the collection in memory; before the first save there is
\* no file and the collection is empty.
ArchivoAlDia ==
    \/ archivo = ArchivoAusente /\ tareas = <<>>
    \/ archivo = ArchivoCon(tareas) /\ CargarTareas(archivo) = tareas

\* C16: with requests handled one at a time and every write succeeding,
\* after each request the file holds exactly `tareas`; a request that
\* changes `tareas` rewrites the file, and a restart reloads the same
\* collection.
C16_ArchivoIgualAMemoria ==
    /\ [] ArchivoAlDia
    /\ [][ultima'.op # "cargar" /\ tareas' # tareas
             => archivo' = ArchivoCon(tareas')]_vars
    /\ [][ultima'.op = "cargar" => ultima'.ret /\ tareas' = tareas]_vars

\* borrar_tarea has changed one of two tasks and the file holds both as they
\* now are.
C16_Witness ==
    /\ ultima.op = "borrar"
    /\ ultima.ret
    /\ Len(tareas) = 2
    /\ archivo = ArchivoCon(tareas)
    /\ \E i \in 1..Len(tareas) : tareas[i].motivo # ""

\* The JSON object has no "lista" key or has the empty string under it.
SinNombreDeLista(e) == "lista" \notin DOMAIN e \/ e.lista = JStr("")

\* C17: no task ever has an empty lista; agregar_tarea given an empty or
\* blank list name stores "general", cargar_tareas turns a missing or empty
\* "lista" into "general", and renombrar_lista assigns no empty or blank
\* name.
C17_ListaNuncaVacia ==
    /\ [] (\A i \in 1..Len(tareas) : tareas[i].lista # "")
    /\ [][ultima'.op = "agregar" /\ ultima'.ret /\ Strip(ultima'.lista) = ""
             => tareas'[Len(tareas')].lista = "general"]_vars
    /\ [][ultima'.op = "cargar" /\ ultima'.ret /\ archivo.estado = "ok"
             => \A i \in 1..Len(tareas') :
                   SinNombreDeLista(archivo.datos[i])
                       => tareas'[i].lista = "general"]_vars
    /\ [][ultima'.op = "renombrar" /\ ultima'.ret
             => /\ Strip(ultima'.valor) # ""
                /\ \A i \in 1..Len(tareas') :
                      tareas'[i].lista # tareas[i].lista
                          => tareas'[i].lista = ultima'.valor]_vars

\* C19: in every state reached from the empty store by requests handled one
\* at a time and restarts, a task that is completada has motivo = "".
C19_CompletadaSinMotivo ==
    \A i \in 1..Len(tareas) : tareas[i].completada => tareas[i].motivo = ""

\* A task has just been completed while another one is open with a motivo.
C19_Witness ==
    /\ ultima.op = "completar"
    /\ ultima.ret
    /\ TareaCon(tareas, ultima.id).completada
    /\ \E i \in 1..Len(tareas) : tareas[i].motivo # ""

\* C20: ultimo_id is at least the id of every task; right after
\* cargar_tareas it is the greatest id loaded, 0 when nothing was loaded; it
\* changes only in agregar_tarea, by exactly 1, and in cargar_tareas.
C20_UltimoId ==
    /\ [] (\A i \in 1..Len(tareas) : ultimo_id >= tareas[i].id)
    /\ [][ultima'.op = "cargar"
             => /\ \A i \in 1..Len(tareas') : ultimo_id' >= tareas'[i].id
                /\ IF tareas' = <<>> THEN ultimo_id' = 0
                   ELSE \E i \in 1..Len(tareas') : ultimo_id' = tareas'[i].id]_vars
    /\ [][ultimo_id' # ultimo_id
             => \/ ultima'.op = "agregar" /\ ultimo_id' = ultimo_id + 1
                \/ ultima'.op = "cargar"]_vars

\* A restart has set ultimo_id, below an id handed out earlier, to the
\* greatest id among the tasks loaded.
C20_Witness ==
    /\ ultima.op = "cargar"
    /\ tareas # <<>>
    /\ ultimo_id = tareas[Len(tareas)].id
    /\ \E id \in usados : id > ultimo_id

\* The request of worker h is an agregar_tarea that has built its task.
Creada(h) ==
    hilos[h].op = "agregar" /\ hilos[h].pc \in {"anexar", "guardar", "hecho"}

\* The request of worker h is an agregar_tarea whose append ran between the
\* other request's list comprehension and its assignment.
AnexadaDurante(h) ==
    /\ hilos[h].op = "agregar"
    /\ hilos[h].pc \in {"guardar", "hecho"}
    /\ hilos[h].durante

\* The request of worker g is an eliminar_lista that has assigned its list.
Asignada(g) ==
    hilos[g].op = "eliminar" /\ hilos[g].pc \in {"guardar", "hecho"}

Terminadas == \A h \in Hilos : hilos[h].pc = "hecho"

\* C18: with two requests interleaving and no lock, two agregar_tarea that
\* read the same ultimo_id give their tasks the same id, and both tasks are
\* in the collection; a task appended while eliminar_lista was between
\* building and assigning its list is not in the collection once the list
\* is assigned, nor in the file once both requests have returned.
C18_SinCerrojos ==
    \A h \in Hilos :
        LET g == Otro(h)
        IN  /\ Creada(h) /\ Creada(g) /\ hilos[h].leido = hilos[g].leido
                => hilos[h].id = hilos[g].id
            /\ Creada(h) /\ Creada(g) /\ Terminadas
                => \E i, j \in 1..Len(tareas) :
                      /\ i # j
                      /\ tareas[i] = hilos[h].nueva[1]
                      /\ tareas[j] = hilos[g].nueva[1]
            /\ AnexadaDurante(h) /\ Asignada(g)
                => /\ hilos[h].nueva[1] \notin Elementos(tareas)
                   /\ Terminadas
                        => /\ archivo = ArchivoCon(tareas)
                           /\ hilos[h].nueva[1] \notin
                                 Elementos(CargarTareas(archivo))

\* Two tasks of the collection share an id, and an agregar_tarea that has
\* returned appended its task during an eliminar_lista that has returned.
C18_Witness ==
    /\ ~IdsDistintos(tareas)
    /\ Terminadas
    /\ \E h \in Hilos : AnexadaDurante(h) /\ Asignada(Otro(h))

====
